---- MODULE Spec2Model ----
(***************************************************************************)
(* A model of lumispy.utils.analysis.plot_span_map                          *)
(* (src/lumispy/utils/analysis.py).                                         *)
(*                                                                          *)
(* plot_span_map validates its arguments, plots the navigator               *)
(* (sig.nansum()), creates nspans span ROIs over the signal axis and, for   *)
(* each span, wires two reactive rules with hs.interactive:                 *)
(*   rule 1 (line 85): on span.events.changed, re-slice sig into span_sig;  *)
(*   rule 2 (lines 95-97): on span_sig.axes_manager.events.any_axis_changed,*)
(*                         write span_sig.nansum(axis=-1) into span_sum.    *)
(*                                                                          *)
(* Coordinates of the signal axis are exact rationals, stored as integer    *)
(* numerators over the common denominator Den, so that the division of      *)
(* line 68 (by 2, 4 or 6) is exact.  Sequences are 1-based: the model's     *)
(* index i is the code's index i - 1.                                       *)
(***************************************************************************)
EXTENDS Integers, Sequences, FiniteSets, TLC

VARIABLES
    pc,         \* "start" | "raised" | "returned" | "interactive"
    sig,        \* the hyperspectral signal passed to plot_span_map
    nspans,     \* the nspans argument
    error,      \* the ValueError raised, or NoError
    all_sum,    \* the navigator, [channel -> number], or <<>> before it exists
    plots,      \* the windows opened by .plot(), in order
    widgets,    \* the span widgets added to the navigator, in order
    spans,      \* the SpanROIs, each [left, right]
    span_sigs,  \* the span slices, each [chans]: the channels of sig it views
    span_sums,  \* the span sums, each [obj, data]
    bindings,   \* the reactive rules registered by hs.interactive
    pending,    \* events fired and not yet delivered to their rules
    data_edits, \* number of in-place edits of sig.data since the call
    editing     \* history: the span whose range edit is being propagated, or 0

vars == <<pc, sig, nspans, error, all_sum, plots, widgets, spans, span_sigs,
          span_sums, bindings, pending, data_edits, editing>>

----------------------------------------------------------------------------
(* Program constants *)

\* line 50: if nspans > 3
MaxSpans == 3

\* line 59: colors = ['red', 'green', 'blue']
colors == <<"red", "green", "blue">>

\* line 92: cmap=f'{color.capitalize()}s'
cmap(color) ==
    CASE color = "red" -> "Reds"
      [] color = "green" -> "Greens"
      [] color = "blue" -> "Blues"

\* Common denominator of the coordinates: (last - first) / (2 * nspans) is
\* exact for every nspans in 1..MaxSpans.
Den == 4 * MaxSpans

----------------------------------------------------------------------------
(* Bounds of the model *)

MaxChan == 3        \* channels of the signal axis: 1..MaxChan
MaxCoord == 2       \* range edits pick bounds among 0..MaxCoord axis units
MaxDataEdits == 1   \* in-place edits of sig.data in one behaviour

Dims == {1, 2, 3}                   \* signal / navigation dimensions tried
NSpansArgs == {-2, -1, 1, 2, 3, 4, 5}
AxisOffsets == {0, 1}
AxisScales == {-1, 1}               \* descending and ascending axes
DataSeeds == {0, 1}
Positions == {<<0, 0>>, <<0, 1>>}   \* the two navigation axes: a 1 x 2 map
EditCoords == {Den * k : k \in 0..MaxCoord}

----------------------------------------------------------------------------
(* Numbers with NaN *)

NaN == [nan |-> TRUE, v |-> 0]
Num(x) == [nan |-> FALSE, v |-> x]

\* numpy.nansum treats a NaN as zero
NanToZero(a) == IF a.nan THEN 0 ELSE a.v

\* numpy.sum: a NaN makes the result NaN
PlainAdd(a, b) == IF a.nan \/ b.nan THEN NaN ELSE Num(a.v + b.v)

NanAdd(a, b) == Num(NanToZero(a) + NanToZero(b))

----------------------------------------------------------------------------
(* The signal *)

\* The coordinate array of the signal axis: offset + scale * index, in 1/Den
UniformAxis(size, offset, scale) ==
    [k \in 1..size |-> Den * (offset + scale * (k - 1))]

\* The data cube: a value per (navigation position, channel); some are NaN
SigData(size, seed) ==
    [x \in Positions \X (1..size) |->
        IF (x[1][2] + 2 * x[2] + seed) % 3 = 0
        THEN NaN
        ELSE Num(1 + ((x[1][2] + x[2] + seed) % 2))]

Signals ==
    { [signal_dimension |-> sd, navigation_dimension |-> nd,
       axis |-> UniformAxis(size, off, sc), data |-> SigData(size, seed)] :
      sd \in Dims, nd \in Dims, size \in 1..MaxChan, off \in AxisOffsets,
      sc \in AxisScales, seed \in DataSeeds }

RECURSIVE FoldAdd(_, _)
\* the sum of f over the set S, accumulated the way nansum accumulates
FoldAdd(f, S) ==
    IF S = {} THEN Num(0)
    ELSE LET x == CHOOSE y \in S : TRUE
         IN  NanAdd(f[x], FoldAdd(f, S \ {x}))

\* line 70: sig.nansum(), the sum over the navigation axes, per channel
nansum_nav(s) ==
    [c \in 1..Len(s.axis) |->
        FoldAdd([p \in Positions |-> s.data[<<p, c>>]], Positions)]

\* a sum over every channel of sig, whatever the slice
nansum_whole_axis(s, chans) ==
    [p \in Positions |->
        FoldAdd([c \in 1..Len(s.axis) |-> s.data[<<p, c>>]], 1..Len(s.axis))]

\* lines 89, 95: span_sig.nansum(-1), the sum over the channels the slice
\* views, per navigation position; span_sig views the data of sig
nansum_spectral(s, chans) ==
    [p \in Positions |->
        FoldAdd([c \in chans |-> s.data[<<p, c>>]], chans)]

\* line 85: span(signal=sig, axes=signal_axes): the channels whose coordinate
\* lies in [left, right)
RoiSlice(axis, span) ==
    {k \in 1..Len(axis) : span.left <= axis[k] /\ axis[k] < span.right}

----------------------------------------------------------------------------
(* plot_span_map *)

NoError == [type |-> "none", text |-> "", dims |-> <<>>]

\* line 51
SpanCountError ==
    [type |-> "ValueError",
     text |-> "Maximum number of spans allowed is 3",
     dims |-> <<>>]

\* a slip that reports the two dimensions in the wrong order
DimsErrorSwapped(s) ==
    [type |-> "ValueError",
     text |-> "This method is designed for data with 1 signal and 2 navigation dimensions, not {sig_dims} and {nav_dims} respectively",
     dims |-> <<s.navigation_dimension, s.signal_dimension>>]

\* lines 54-57: the message carries (sig_dims, nav_dims) as found on sig
DimsError(s) ==
    [type |-> "ValueError",
     text |-> "This method is designed for data with 1 signal and 2 navigation dimensions, not {sig_dims} and {nav_dims} respectively",
     dims |-> <<s.signal_dimension, s.navigation_dimension>>]

\* the two checks in the other order
validate_dims_first(s, n) ==
    IF s.signal_dimension # 1 \/ s.navigation_dimension # 2 THEN DimsError(s)
    ELSE IF n > MaxSpans THEN SpanCountError
    ELSE NoError

\* lines 50-57: the two validations, in the code's order
validate(s, n) ==
    IF n > MaxSpans THEN SpanCountError
    ELSE IF s.signal_dimension # 1 \/ s.navigation_dimension # 2 THEN DimsError(s)
    ELSE NoError

\* line 66: ax_sig[-1] - ax_sig[0]
ax_sig_range(axis) == axis[Len(axis)] - axis[1]

\* line 68: ax_sig_range / (2 * nspans), exact in units of 1/Den; n # 0
span_width(axis, n) ==
    IF n > 0 THEN ax_sig_range(axis) \div (2 * n)
    ELSE 0 - (ax_sig_range(axis) \div (2 * (0 - n)))

\* a loop that runs abs(nspans) times
range_abs(n) == IF n > 0 THEN 1..n ELSE 1..(0 - n)

\* line 73: range(nspans), 1-based; empty when nspans <= 0
range(n) == 1..n

\* lines 75-76: SpanROI(i * span_width + ax_sig[0], (i + 1) * span_width + ax_sig[0])
SpanROI(axis, n, i) ==
    [left  |-> (i - 1) * span_width(axis, n) + axis[1],
     right |-> i * span_width(axis, n) + axis[1]]

\* rule 1 writing into the slice of the last span, whatever i
Rule1_last(i) ==
    [event |-> <<"span.events.changed", i>>, f |-> "span", src |-> i,
     out |-> nspans]

\* line 85: hs.interactive(span, signal=sig, event=span.events.changed, ...)
\* creates span_sig and re-slices into it whenever span i changes
Rule1(i) ==
    [event |-> <<"span.events.changed", i>>, f |-> "span", src |-> i,
     out |-> i]

\* rule 2 writing into the sum of the first span, whatever i
Rule2_first(i) ==
    [event |-> <<"span_sig.axes_manager.events.any_axis_changed", i>>,
     f |-> "span_sig.nansum", src |-> i, out |-> 1]

\* rule 2 listening to the data of sig instead of the axes of span_sig
Rule2_on_data(i) ==
    [event |-> <<"sig.events.data_changed", 0>>,
     f |-> "span_sig.nansum", src |-> i, out |-> i]

\* lines 95-97: hs.interactive(span_sig.nansum, axis=-1,
\*     event=span_sig.axes_manager.events.any_axis_changed, out=span_sum)
Rule2(i) ==
    [event |-> <<"span_sig.axes_manager.events.any_axis_changed", i>>,
     f |-> "span_sig.nansum", src |-> i, out |-> i]

\* lines 50-57: a failed validation raises before anything is created
PlotRaises ==
    /\ pc = "start"
    /\ validate(sig, nspans) # NoError
    /\ pc' = "raised"
    /\ error' = validate(sig, nspans)
    /\ UNCHANGED <<sig, nspans, all_sum, plots, widgets, spans, span_sigs,
                   span_sums, bindings, pending, data_edits, editing>>

\* lines 59-100: the navigator, then one span, slice, sum and two rules per
\* index, in index order
PlotReturns ==
    /\ pc = "start"
    /\ validate(sig, nspans) = NoError
    /\ pc' = "returned"
    /\ all_sum' = nansum_nav(sig)
    /\ spans' = [i \in range(nspans) |-> SpanROI(sig.axis, nspans, i)]
    /\ widgets' = [i \in range(nspans) |-> [span |-> i, color |-> colors[i]]]
    /\ span_sigs' = [i \in range(nspans) |->
                        [chans |-> RoiSlice(sig.axis, SpanROI(sig.axis, nspans, i))]]
    /\ span_sums' = [i \in range(nspans) |->
                        [obj |-> i,
                         data |-> nansum_spectral(sig,
                                     RoiSlice(sig.axis, SpanROI(sig.axis, nspans, i)))]]
    /\ plots' = <<[obj |-> "all_sum", cmap |-> "default"]>> \o
                [i \in range(nspans) |->
                    [obj |-> "span_sum", cmap |-> cmap(colors[i])]]
    /\ bindings' = {Rule1(i) : i \in range(nspans)} \cup
                   {Rule2(i) : i \in range(nspans)}
    /\ UNCHANGED <<sig, nspans, error, pending, data_edits, editing>>

plot_span_map == PlotRaises \/ PlotReturns

----------------------------------------------------------------------------
(* The reactive rules after the call *)

\* an event reaches the rules bound to it; one nothing listens to is dropped
Fire(events) == {e \in events : \E b \in bindings : b.event = e}

RulesOn(e, f) == {b \in bindings : b.event = e /\ b.f = f}

\* line 97: out=span_sum, the result is written into the existing span_sum
nansum_out(old, data) == [old EXCEPT !.data = data]

\* The user moves span i to [lo, hi) (the widget, or span.left / span.right):
\* the ROI keeps left < right and fires span.events.changed
EditRange(i, lo, hi) ==
    /\ pc \in {"returned", "interactive"}
    /\ pending = {}
    /\ i \in DOMAIN spans
    /\ lo < hi
    /\ spans[i] # [left |-> lo, right |-> hi]
    /\ pc' = "interactive"
    /\ spans' = [spans EXCEPT ![i] = [left |-> lo, right |-> hi]]
    /\ pending' = Fire({<<"span.events.changed", i>>})
    /\ editing' = IF pending' = {} THEN 0 ELSE i
    /\ UNCHANGED <<sig, nspans, error, all_sum, plots, widgets, span_sigs,
                   span_sums, bindings, data_edits>>

\* line 85, rule 1: span.events.changed re-slices sig into span_sig; the
\* axis of span_sig fires any_axis_changed when the slice's axis changed
DeliverChanged(e) ==
    /\ e \in pending
    /\ RulesOn(e, "span") # {}
    /\ span_sigs' =
          [j \in DOMAIN span_sigs |->
              IF \E b \in RulesOn(e, "span") : b.out = j
              THEN LET b == CHOOSE r \in RulesOn(e, "span") : r.out = j
                   IN  [chans |-> RoiSlice(sig.axis, spans[b.src])]
              ELSE span_sigs[j]]
    /\ pending' = (pending \ {e}) \cup
                  Fire({<<"span_sig.axes_manager.events.any_axis_changed", j>> :
                         j \in {k \in DOMAIN span_sigs :
                                  span_sigs'[k].chans # span_sigs[k].chans}})
    /\ editing' = IF pending' = {} THEN 0 ELSE editing
    /\ UNCHANGED <<pc, sig, nspans, error, all_sum, plots, widgets, spans,
                   span_sums, bindings, data_edits>>

\* lines 95-97, rule 2: the event it is bound to recomputes
\* span_sig.nansum(axis=-1) into span_sum
DeliverAxisChanged(e) ==
    /\ e \in pending
    /\ RulesOn(e, "span_sig.nansum") # {}
    /\ span_sums' =
          [j \in DOMAIN span_sums |->
              IF \E b \in RulesOn(e, "span_sig.nansum") : b.out = j
              THEN LET b == CHOOSE r \in RulesOn(e, "span_sig.nansum") : r.out = j
                   IN  nansum_out(span_sums[j],
                                  nansum_spectral(sig, span_sigs[b.src].chans))
              ELSE span_sums[j]]
    /\ pending' = pending \ {e}
    /\ editing' = IF pending' = {} THEN 0 ELSE editing
    /\ UNCHANGED <<pc, sig, nspans, error, all_sum, plots, widgets, spans,
                   span_sigs, bindings, data_edits>>

\* The user writes v into sig.data[p, c] in place and triggers
\* sig.events.data_changed
EditData(p, c, v) ==
    /\ pc \in {"returned", "interactive"}
    /\ pending = {}
    /\ data_edits < MaxDataEdits
    /\ c \in 1..Len(sig.axis)
    /\ sig.data[<<p, c>>] # v
    /\ pc' = "interactive"
    /\ sig' = [sig EXCEPT !.data[<<p, c>>] = v]
    /\ data_edits' = data_edits + 1
    /\ pending' = Fire({<<"sig.events.data_changed", 0>>})
    /\ UNCHANGED <<nspans, error, all_sum, plots, widgets, spans, span_sigs,
                   span_sums, bindings, editing>>

Events ==
    {<<"span.events.changed", i>> : i \in 1..MaxSpans} \cup
    {<<"span_sig.axes_manager.events.any_axis_changed", i>> : i \in 1..MaxSpans} \cup
    {<<"sig.events.data_changed", 0>>}

----------------------------------------------------------------------------
(* Specifications *)

Init ==
    /\ pc = "start"
    /\ sig \in Signals
    /\ nspans \in NSpansArgs
    /\ error = NoError
    /\ all_sum = <<>>
    /\ plots = <<>>
    /\ widgets = <<>>
    /\ spans = <<>>
    /\ span_sigs = <<>>
    /\ span_sums = <<>>
    /\ bindings = {}
    /\ pending = {}
    /\ data_edits = 0
    /\ editing = 0

RangeEdit == \E i \in 1..MaxSpans : \E lo \in EditCoords, hi \in EditCoords :
                 EditRange(i, lo, hi)

SliceUpdate == \E e \in Events : DeliverChanged(e)

SumUpdate == \E e \in Events : DeliverAxisChanged(e)

DataEdit == \E p \in Positions : \E c \in 1..MaxChan : \E v \in {NaN, Num(3)} :
                EditData(p, c, v)

Next == plot_span_map \/ RangeEdit \/ SliceUpdate \/ SumUpdate

Spec == Init /\ [][Next]_vars

\* The same program with in-place edits of the data of sig.  The spans are
\* independent of each other, so up to two of them on an ascending axis are
\* followed here; the failing validations are kept.
InitData ==
    /\ Init
    /\ nspans # MaxSpans
    /\ sig.axis[1] = 0
    /\ sig.axis[1] <= sig.axis[Len(sig.axis)]

NextData == Next \/ DataEdit

SpecData == InitData /\ [][NextData]_vars

----------------------------------------------------------------------------
(* Properties *)

Called == pc \in {"returned", "interactive"}

\* A NaN-safe sum computed without the accumulation of FoldAdd: the data
\* hold 1, 2 or 3, so the sum is the weighted count of the non-NaN values.
CountOf(f, S, v) == Cardinality({x \in S : ~f[x].nan /\ f[x].v = v})

IndepNanSum(f, S) ==
    Num(CountOf(f, S, 1) + 2 * CountOf(f, S, 2) + 3 * CountOf(f, S, 3))

\* the channels whose coordinate lies in the range span i holds now
ChansOfSpan(i) ==
    {c \in 1..Len(sig.axis) :
        spans[i].left <= sig.axis[c] /\ sig.axis[c] < spans[i].right}

\* per position, the NaN-safe sum of sig over the range span i holds now
ExpectedSpanSum(i) ==
    [p \in Positions |->
        IndepNanSum([c \in 1..Len(sig.axis) |-> sig.data[<<p, c>>]],
                    ChansOfSpan(i))]

ExpectedAllSum ==
    [c \in 1..Len(sig.axis) |->
        IndepNanSum([p \in Positions |-> sig.data[<<p, c>>]], Positions)]

ChangedEvent(i) == <<"span.events.changed", i>>
AxisEvent(i) == <<"span_sig.axes_manager.events.any_axis_changed", i>>

InitialSum(i) ==
    nansum_spectral(sig, RoiSlice(sig.axis, SpanROI(sig.axis, nspans, i)))

NoPartialState ==
    /\ all_sum = <<>> /\ plots = <<>> /\ widgets = <<>>
    /\ spans = <<>> /\ span_sigs = <<>> /\ span_sums = <<>>
    /\ bindings = {} /\ pending = {}

ValidDims == sig.signal_dimension = 1 /\ sig.navigation_dimension = 2

C2_SpanCountFirst ==
    (pc # "start" /\ nspans > MaxSpans) =>
        /\ pc = "raised"
        /\ error.type = "ValueError"
        /\ error.text = "Maximum number of spans allowed is 3"
        /\ NoPartialState

\* both checks would fail, and the span-count error is the one raised
C2_Witness ==
    /\ pc = "raised"
    /\ nspans > MaxSpans
    /\ ~ValidDims
    /\ error.text = "Maximum number of spans allowed is 3"

\* C3: with nspans <= 3 and wrong dimensions the call raises an error that
\* carries (signal dimension, navigation dimension) as found on sig, and
\* nothing has been created.
C3_DimsReported ==
    (pc # "start" /\ nspans <= MaxSpans /\ ~ValidDims) =>
        /\ pc = "raised"
        /\ error.type = "ValueError"
        /\ error.dims = <<sig.signal_dimension, sig.navigation_dimension>>
        /\ NoPartialState

\* signal_dimension = 2 is reported first, ahead of a different second number
C3_Witness ==
    /\ pc = "raised"
    /\ nspans <= MaxSpans
    /\ sig.signal_dimension = 2
    /\ sig.navigation_dimension = 3
    /\ error.dims = <<2, 3>>

\* C4: for nspans in 1..3 on a valid signal the three sequences have nspans
\* entries each, and index i is one span throughout: rule 1 slices span i
\* into span_sigs[i], rule 2 sums span_sigs[i] into span_sums[i].
C4_Wiring ==
    (Called /\ nspans \in 1..MaxSpans) =>
        /\ Len(spans) = nspans
        /\ Len(span_sigs) = nspans
        /\ Len(span_sums) = nspans
        /\ Cardinality(bindings) = 2 * nspans
        /\ \A i \in 1..nspans :
              /\ \E b \in bindings :
                    /\ b.f = "span" /\ b.event = ChangedEvent(i)
                    /\ b.src = i /\ b.out = i
              /\ \E b \in bindings :
                    /\ b.f = "span_sig.nansum" /\ b.event = AxisEvent(i)
                    /\ b.src = i /\ b.out = i
              /\ span_sums[i].obj = i
              /\ widgets[i] = [span |-> i, color |-> colors[i]]

C4_Witness ==
    /\ pc = "returned"
    /\ nspans = MaxSpans
    /\ Len(spans) = MaxSpans
    /\ Len(span_sums) = MaxSpans

AxisMin(axis) == CHOOSE m \in {axis[k] : k \in DOMAIN axis} :
                    \A k \in DOMAIN axis : m <= axis[k]
AxisMax(axis) == CHOOSE m \in {axis[k] : k \in DOMAIN axis} :
                    \A k \in DOMAIN axis : m >= axis[k]
Extent(axis) == AxisMax(axis) - AxisMin(axis)

\* C5 as stated: on return, for an ascending or a descending axis, span i
\* holds [min + i*w, min + (i+1)*w) with w = (max - min) / (2 * nspans).
C5_RangeFromMin ==
    (pc = "returned" /\ nspans \in 1..MaxSpans) =>
        \A i \in 1..nspans :
            /\ spans[i].left =
                  AxisMin(sig.axis) + (i - 1) * (Extent(sig.axis) \div (2 * nspans))
            /\ spans[i].right =
                  AxisMin(sig.axis) + i * (Extent(sig.axis) \div (2 * nspans))

Width(i) == spans[i].right - spans[i].left

RECURSIVE SumWidths(_)
SumWidths(n) == IF n = 0 THEN 0 ELSE Width(n) + SumWidths(n - 1)

Overlap(a, b) ==
    (IF a.left >= b.left THEN a.left ELSE b.left) <
    (IF a.right <= b.right THEN a.right ELSE b.right)

\* C6 as stated: on return the spans have one width, each ends where the
\* next begins, no two overlap, and their widths add up to half of the
\* extent max - min of the axis.
C6_Tiling ==
    (pc = "returned" /\ nspans \in 1..MaxSpans) =>
        /\ \A i, j \in 1..nspans : Width(i) = Width(j)
        /\ \A i \in 1..(nspans - 1) : spans[i].right = spans[i + 1].left
        /\ \A i, j \in 1..nspans : i # j => ~Overlap(spans[i], spans[j])
        /\ 2 * SumWidths(nspans) = Extent(sig.axis)

\* C7: all_sum is, per channel, the NaN-safe sum of sig over the navigation
\* positions; it depends on sig alone, not on nspans.
C7_AllSum ==
    Called => all_sum = ExpectedAllSum

\* a NaN sample sits in a channel whose sum is a number
C7_Witness ==
    /\ pc = "returned"
    /\ \E c \in 1..Len(sig.axis) :
          /\ \E p \in Positions : sig.data[<<p, c>>].nan
          /\ \E p \in Positions : ~sig.data[<<p, c>>].nan
          /\ ~all_sum[c].nan
          /\ all_sum[c].v > 0

\* C8: with two or three spans, a step that edits span i or propagates its
\* edit leaves the range, the slice and the sum of every other span as they
\* were, and leaves sig and all_sum as they were.
C8_Frame ==
    [][ (Called /\ nspans \in 2..MaxSpans) =>
          LET cur == IF editing' # 0 THEN editing' ELSE editing
          IN  /\ sig' = sig
              /\ all_sum' = all_sum
              /\ \A j \in DOMAIN spans :
                    j # cur =>
                       /\ spans'[j] = spans[j]
                       /\ span_sigs'[j] = span_sigs[j]
                       /\ span_sums'[j] = span_sums[j] ]_vars

\* one span has been moved and its image recomputed; another is untouched
C8_Witness ==
    /\ pc = "interactive"
    /\ pending = {}
    /\ \E i, j \in DOMAIN spans :
          /\ i # j
          /\ spans[i] # SpanROI(sig.axis, nspans, i)
          /\ span_sums[i].data # InitialSum(i)
          /\ spans[j] = SpanROI(sig.axis, nspans, j)
          /\ span_sums[j].data = InitialSum(j)

\* C9 as stated: after a range edit and also after a change of the data of
\* sig, once the events are delivered, span_sums[i] is up to date.
C9_UpToDateAfterAnyChange ==
    (Called /\ pending = {}) =>
        \A i \in DOMAIN spans : span_sums[i].data = ExpectedSpanSum(i)

\* C9 amended: a range edit fires the event of rule 1; rule 2, when its
\* event is delivered, writes the NaN-safe sum over the range of span i
\* into the existing span_sums[i], which is never replaced; a change of the
\* data of sig fires no rule and leaves every span_sums[i] as it was.
C9_RangeEditsOnly ==
    [][ Called =>
          /\ \A i \in DOMAIN span_sums : span_sums'[i].obj = span_sums[i].obj
          /\ \A i \in DOMAIN spans :
                spans'[i] # spans[i] => ChangedEvent(i) \in pending'
          /\ \A i \in DOMAIN spans :
                (AxisEvent(i) \in pending /\ AxisEvent(i) \notin pending') =>
                    span_sums'[i].data = ExpectedSpanSum(i)
          /\ sig' # sig => (span_sums' = span_sums /\ pending' = {}) ]_vars

\* the data changed under a span, nothing is pending, and its image is stale
C9_Witness ==
    /\ pc = "interactive"
    /\ data_edits > 0
    /\ pending = {}
    /\ \E i \in DOMAIN spans :
          /\ span_sigs[i].chans = ChansOfSpan(i)
          /\ span_sums[i].data # ExpectedSpanSum(i)

\* C10: a negative nspans on a valid signal raises nothing: the navigator is
\* computed and plotted in one window, no span is created, and the call
\* returns all_sum with three empty sequences.
C10_NegativeSpans ==
    (pc # "start" /\ nspans < 0 /\ ValidDims) =>
        /\ pc = "returned"
        /\ error.type = "none"
        /\ all_sum = ExpectedAllSum
        /\ Len(plots) = 1
        /\ plots[1].obj = "all_sum"
        /\ spans = <<>> /\ span_sigs = <<>> /\ span_sums = <<>>
        /\ widgets = <<>> /\ bindings = {}

C10_Witness ==
    /\ pc = "returned"
    /\ nspans < 0
    /\ Len(plots) = 1
    /\ Len(all_sum) = Len(sig.axis)

====
